---- MODULE Spec2Model ----
(***************************************************************************)
(* Angio Core Lab: the record store (DatabaseManager over sqlite), the     *)
(* HTTP handlers that call it (AngioServer), the backup manager            *)
(* (BackupManager) and the browser-side store (AppState).                  *)
(*                                                                         *)
(* Every await of a storage call is one step of a request, so requests     *)
(* interleave exactly where the event loop lets them.  Stenosis values     *)
(* are kept in tenths of a percent (1000 is 100%, 1001 is 100.1%).         *)
(***************************************************************************)
EXTENDS Integers, Sequences, FiniteSets

\* ------------------------------------------------------------------ bounds
MaxCalls == 2          \* HTTP requests per behaviour
MaxVessels == 2        \* longest vesselData array of a request
MaxChecked == 1        \* createProcedure requests of the validation runs
MaxJobs == 2           \* backup runs per behaviour
MaxTicks == 2          \* clock ticks per behaviour
MaxIds == 3            \* ids generateId hands out per behaviour
MaxStarts == 2         \* starts of the server process per behaviour
MaxUpdates == 1        \* updatePatient calls that succeed per behaviour
MaxUsers == 3          \* users Auth.register stores per behaviour

Calls == 1..(IF MaxCalls >= MaxChecked THEN MaxCalls ELSE MaxChecked)
Jobs == 1..MaxJobs

PatientIds == {"P-100", "P-200"}
StudyNames == {"VIKING", "CORE"}
StenosisVals == {0, 1000, 1001}
\* procedureDate values of one ISO form, "2024-09-20", "2024-09-21" and as day numbers:
\* "2024-09-22", as day numbers: strings of that form compare as their days do
ProcedureDates == {1, 2, 3}
VesselNames == <<"LAD", "RCA", "LCX", "LM">>

RECURSIVE SeqsUpTo(_, _)
SeqsUpTo(S, n) ==
    IF n = 0 THEN {<<>>}
    ELSE LET shorter == SeqsUpTo(S, n - 1)
         IN  shorter \cup {Append(s, x) : s \in {t \in shorter : Len(t) = n - 1}, x \in S}

\* vesselData arrays: the i-th element is named after the i-th vessel
VesselData(s) == [i \in 1..Len(s) |-> [vessel |-> VesselNames[i], stenosisPercentage |-> s[i]]]

\* every array of up to MaxVessels measurements over StenosisVals
VesselInputs == {VesselData(s) : s \in SeqsUpTo(StenosisVals, MaxVessels)}

\* one array of each length, all in range, both boundaries used
VesselSample ==
    {VesselData([i \in 1..n |-> IF i % 2 = 1 THEN 0 ELSE 1000]) : n \in 0..MaxVessels}

\* ------------------------------------------------------------------ state
VARIABLES
    users,                \* table users
    patients,             \* table patients
    studies,              \* table studies
    procedures,           \* table procedures
    vessel_measurements,  \* table vessel_measurements
    audit_log,            \* table audit_log
    call,                 \* the HTTP requests: handler position, locals, response
    job,                  \* the backup runs: position, locals, outcome
    files,                \* the backup directory: file name -> mtime and content
    clock,                \* the wall clock, in milliseconds
    appPatients,          \* AppState.patients of the browser store
    appAssessments,       \* AppState.assessments
    localStorage,         \* the corelab_ keys of window.localStorage
    nextId,               \* the ids generateId has handed out
    appLast,              \* the last AppState call and what it returned
    appPrev,              \* the browser store as it was before that call
    server,               \* the node process: running or exited, its storage handle
    boot,                 \* DatabaseManager.initialize: its position, the store it found
    shutdown              \* the shutdown() calls, one per signal

tables == <<users, patients, studies, procedures, vessel_measurements, audit_log>>
vars == <<users, patients, studies, procedures, vessel_measurements, audit_log,
          call, job, files, clock,
          appPatients, appAssessments, localStorage, nextId, appLast, appPrev,
          server, boot, shutdown>>
procVars == <<server, boot, shutdown>>
appVars == <<appPatients, appAssessments, localStorage, nextId, appLast, appPrev>>
storeVars == <<users, patients, studies, procedures, vessel_measurements, audit_log, call>>
backupVars == <<job, files, clock>>

\* ------------------------------------------------------------------ errors
ErrUniquePatient == "SQLITE_CONSTRAINT: UNIQUE constraint failed: patients.patient_id"
ErrUniqueStudy == "SQLITE_CONSTRAINT: UNIQUE constraint failed: studies.name"
ErrUniqueUser == "SQLITE_CONSTRAINT: UNIQUE constraint failed: users.email"
ErrCheck == "SQLITE_CONSTRAINT: CHECK constraint failed: vessel_measurements"
ErrStorage == "SQLITE_IOERR: disk I/O error"
ErrPatientNotFound == "Patient not found"

\* error.message.includes('UNIQUE')
IncludesUNIQUE(message) == message \in {ErrUniquePatient, ErrUniqueStudy, ErrUniqueUser}

\* ------------------------------------------------------------------ requests
IdleCall ==
    [op |-> "none", pc |-> "idle", patientId |-> "", studyName |-> "",
     vesselData |-> <<>>, patient |-> 0, study |-> 0, procedureId |-> 0, i |-> 0,
     createdAt |-> 0, email |-> "", data |-> <<>>, procedureDate |-> 0, before |-> <<>>,
     thrown |-> "", status |-> 0, error |-> ""]

\* handleValidation: a failed validator answers 400 before the handler runs
ValidationFailed == [status |-> 400, error |-> "Validation failed"]

\* handleError: every error it is given becomes the same 500 with the handler's message
handleError(message) == [status |-> 500, error |-> message]

\* calls of DatabaseManager methods that do not come through a route
DirectOps == {"db.createProcedure", "db.createUser"}

\* a request is answered; a direct call only settles, with what was thrown
Respond(c, resp, thrown) ==
    call' = [call EXCEPT ![c] =
                [@ EXCEPT !.pc = "done", !.thrown = thrown,
                          !.status = IF call[c].op \in DirectOps THEN 0 ELSE resp.status,
                          !.error = IF call[c].op \in DirectOps THEN "" ELSE resp.error]]

Goto(c, pc) == call' = [call EXCEPT ![c].pc = pc]

\* the process has finished initialize and has not exited
Running == server.state = "running"

\* requests are numbered in the order they arrive
MayArrive(c) ==
    /\ Running
    /\ call[c].pc = "idle"
    /\ \A d \in Calls : d < c => call[d].pc # "idle"

FailureMessage(op) ==
    CASE op = "createPatient" -> "Failed to create patient"
      [] op = "createProcedure" -> "Failed to create procedure"
      [] op = "getProcedures" -> "Failed to retrieve procedures"

\* ------------------------------------------------------------------ tables
PatientByPatientId(patientId) == {p \in 1..Len(patients) : patients[p].patient_id = patientId}
StudyByName(name) == {s \in 1..Len(studies) : studies[s].name = name}

\* createTables and createDefaultUsers on a new database, no request yet
InitStore ==
    /\ users = <<[id |-> 1, email |-> "admin@lab.com"], [id |-> 2, email |-> "tech@lab.com"]>>
    /\ patients = <<>>
    /\ studies = <<[id |-> 1, name |-> "VIKING"]>>
    /\ procedures = <<>>
    /\ vessel_measurements = <<>>
    /\ audit_log = <<>>
    /\ call = [c \in Calls |-> IdleCall]

\* ------------------------------------------------------------------ the process
Signals == {"SIGTERM", "SIGINT"}

IdleShutdown == [pc |-> "idle", job |-> 0]

\* a process that has run initialize once and listens; no signal yet
InitServer ==
    /\ server = [state |-> "running", code |-> 0, db |-> "open", closes |-> 0]
    /\ boot = [pc |-> "done", i |-> 0, starts |-> 1, before |-> <<>>]
    /\ shutdown = [s \in Signals |-> IdleShutdown]

\* ------------------------------------------------------------------ backups
maxBackups == 50
autoBackups == 10

TableNames == <<"users", "patients", "studies", "procedures", "vessel_measurements",
                "audit_log">>

TableRows(name) ==
    CASE name = "users" -> users
      [] name = "patients" -> patients
      [] name = "studies" -> studies
      [] name = "procedures" -> procedures
      [] name = "vessel_measurements" -> vessel_measurements
      [] name = "audit_log" -> audit_log

NoData == [name \in {TableNames[t] : t \in 1..Len(TableNames)} |-> <<>>]

\* `angio-lab-backup-${timestamp}.json` and `auto-backup-${timestamp}.json`; kind
\* "upload" is a .json file of another name, which no backup wrote
FileName(kind, timestamp) == [kind |-> kind, timestamp |-> timestamp]

\* a parsed file that has neither section; sections are the keys whose value is truthy
NoBackup ==
    [sections |-> {},
     metadata |-> [type |-> "", version |-> "", created_at |-> 0, total_patients |-> 0,
                   total_procedures |-> 0],
     data |-> NoData]

IdleJob ==
    [kind |-> "none", pc |-> "idle", timestamp |-> 0, t |-> 0, data |-> NoData,
     created_at |-> 0, listing |-> {}, stats |-> {}, left |-> 0, result |-> "",
     failed |-> "", name |-> FileName("none", 0), backup |-> NoBackup, entries |-> <<>>]

\* the envelope createBackup writes: it has no type
ManualEnvelope(created_at, data) ==
    [sections |-> {"metadata", "data"},
     metadata |-> [type |-> "", version |-> "1.0.0", created_at |-> created_at,
                   total_patients |-> Len(data["patients"]),
                   total_procedures |-> Len(data["procedures"])],
     data |-> data]

\* the envelope createAutoBackup writes: it has no version and no total_procedures
AutoEnvelope(created_at, data) ==
    [sections |-> {"metadata", "data"},
     metadata |-> [type |-> "auto", version |-> "", created_at |-> created_at,
                   total_patients |-> Len(data["patients"]),
                   total_procedures |-> -1],
     data |-> data]

Envelope(kind, created_at, data) ==
    IF kind = "manual" THEN ManualEnvelope(created_at, data)
    ELSE AutoEnvelope(created_at, data)

PutFile(name, file) ==
    [n \in DOMAIN files \cup {name} |-> IF n = name THEN file ELSE files[n]]

RemoveFile(name) == [n \in DOMAIN files \ {name} |-> files[n]]

\* a filter that keeps every .json file
FilesOfAnyKind(kind) == DOMAIN files

\* files.filter(file => file.startsWith(prefix) && file.endsWith('.json'))
FilesOfKind(kind) == {n \in DOMAIN files : n.kind = kind}

KeepOf(kind) == IF kind = "manual" THEN maxBackups ELSE autoBackups

\* an empty backup directory, no backup run yet
InitBackups ==
    /\ job = [j \in Jobs |-> IdleJob]
    /\ files = [n \in {} |-> 0]
    /\ clock = 1

\* backup runs are numbered in the order they start
MayStart(j) ==
    /\ Running
    /\ job[j].pc = "idle"
    /\ \A k \in Jobs : k < j => job[k].pc # "idle"

\* createBackup is called: ensureBackupDir is its first await
StartBackup(j) ==
    /\ MayStart(j)
    /\ job' = [job EXCEPT ![j] = [IdleJob EXCEPT !.kind = "manual", !.pc = "mkdir"]]
    /\ UNCHANGED <<files, clock, storeVars, appVars, procVars>>

\* createAutoBackup is called: it names its file before ensureBackupDir
StartAutoBackup(j) ==
    /\ MayStart(j)
    /\ job' = [job EXCEPT ![j] = [IdleJob EXCEPT !.kind = "auto", !.pc = "mkdir",
                                                  !.timestamp = clock]]
    /\ UNCHANGED <<files, clock, storeVars, appVars, procVars>>

\* ensureBackupDir returns; createBackup names its file now; getDatabaseData starts
Mkdir(j) ==
    /\ Running
    /\ job[j].pc = "mkdir"
    /\ job' = [job EXCEPT ![j].pc = "read", ![j].t = 1,
                          ![j].timestamp = IF job[j].kind = "manual" THEN clock ELSE @]
    /\ UNCHANGED <<files, clock, storeVars, appVars, procVars>>

\* getDatabaseData: one SELECT * per await, in the order of TableNames; after the last
\* one the envelope is built
ReadTable(j) ==
    /\ Running
    /\ server.db = "open"
    /\ job[j].pc = "read"
    /\ LET name == TableNames[job[j].t]
           last == job[j].t = Len(TableNames)
       IN  job' = [job EXCEPT ![j].data = [@ EXCEPT ![name] = TableRows(name)],
                              ![j].t = IF last THEN 0 ELSE @ + 1,
                              ![j].created_at = IF last THEN clock ELSE @,
                              ![j].pc = IF last THEN "write" ELSE "read"]
    /\ UNCHANGED <<files, clock, storeVars, appVars, procVars>>

\* fs.writeFile(backupPath, JSON.stringify(backup)): creates the file or replaces it
WriteFile(j) ==
    /\ Running
    /\ job[j].pc = "write"
    /\ files' = PutFile(FileName(job[j].kind, job[j].timestamp),
                        [mtime |-> clock,
                         content |-> Envelope(job[j].kind, job[j].created_at, job[j].data)])
    /\ job' = [job EXCEPT ![j].pc = "readdir"]
    /\ UNCHANGED <<clock, storeVars, appVars, procVars>>

Finish(j) == IF job[j].kind = "manual" THEN "ok" ELSE ""

\* cleanupOldBackups / cleanupAutoBackups: fs.readdir, and the test of the count
Readdir(j) ==
    /\ Running
    /\ job[j].pc = "readdir"
    /\ LET listing == FilesOfKind(job[j].kind)
       IN  IF Cardinality(listing) > KeepOf(job[j].kind)
           THEN job' = [job EXCEPT ![j].pc = "stat", ![j].listing = listing]
           ELSE job' = [job EXCEPT ![j].pc = "done", ![j].listing = listing,
                                   ![j].result = Finish(j)]
    /\ UNCHANGED <<files, clock, storeVars, appVars, procVars>>

\* Promise.all of the fs.stat calls; a file that is gone rejects, which the catch of
\* the cleanup logs
Stat(j) ==
    /\ Running
    /\ job[j].pc = "stat"
    /\ IF job[j].listing \subseteq DOMAIN files
       THEN job' = [job EXCEPT ![j].pc = "unlink",
                               ![j].stats = {[name |-> n, time |-> files[n].mtime] :
                                                n \in job[j].listing},
                               ![j].left = Cardinality(job[j].listing) - KeepOf(job[j].kind)]
       ELSE job' = [job EXCEPT ![j].pc = "done", ![j].result = Finish(j),
                               ![j].failed = "stat"]
    /\ UNCHANGED <<files, clock, storeVars, appVars, procVars>>

\* filesWithStats.sort((a, b) => a.time - b.time): the next file in oldest-first order
\* (files of equal time in either order)
Oldest(stats) == {f \in stats : \A g \in stats : f.time <= g.time}

\* one fs.unlink of the loop over filesToDelete; a file that is gone rejects and ends
\* the cleanup
Unlink(j) ==
    /\ Running
    /\ job[j].pc = "unlink"
    /\ \E f \in Oldest(job[j].stats) :
          IF f.name \in DOMAIN files
          THEN /\ files' = RemoveFile(f.name)
               /\ job' = [job EXCEPT ![j].stats = @ \ {f}, ![j].left = @ - 1,
                                     ![j].pc = IF job[j].left = 1 THEN "done" ELSE "unlink",
                                     ![j].result = IF job[j].left = 1 THEN Finish(j) ELSE @]
          ELSE /\ job' = [job EXCEPT ![j].pc = "done", ![j].result = Finish(j),
                                     ![j].failed = "unlink"]
               /\ UNCHANGED files
    /\ UNCHANGED <<clock, storeVars, appVars, procVars>>

\* createAutoBackup's catch rethrowing what it caught
CreateAutoBackupRethrow(step) == "error"

\* the catch of createAutoBackup: console.error, and the call returns undefined
CreateAutoBackupCatch(step) == ""

\* the catch of createBackup: throw new Error(`Backup creation failed: ...`)
CreateBackupCatch(step) == "error"

\* mkdir, a SELECT of getDatabaseData or writeFile rejects inside the try of
\* createBackup / createAutoBackup
BackupError(j) ==
    /\ Running
    /\ job[j].pc \in {"mkdir", "read", "write"}
    /\ job' = [job EXCEPT ![j].pc = "done", ![j].failed = job[j].pc,
                          ![j].result = IF job[j].kind = "manual"
                                        THEN CreateBackupCatch(job[j].pc)
                                        ELSE CreateAutoBackupCatch(job[j].pc)]
    /\ UNCHANGED <<files, clock, storeVars, appVars, procVars>>

\* readdir, stat or unlink rejects inside the try of cleanupOldBackups /
\* cleanupAutoBackups: its catch logs, and the backup call goes on to its return
CleanupError(j) ==
    /\ Running
    /\ job[j].pc \in {"readdir", "stat", "unlink"}
    /\ job' = [job EXCEPT ![j].pc = "done", ![j].failed = job[j].pc,
                          ![j].result = Finish(j)]
    /\ UNCHANGED <<files, clock, storeVars, appVars, procVars>>

BackupFaultNext ==
    \/ \E j \in Jobs : BackupError(j)
    \/ \E j \in Jobs : CleanupError(j)

\* a millisecond passes
Tick ==
    /\ clock <= MaxTicks
    /\ clock' = clock + 1
    /\ UNCHANGED <<job, files, storeVars, appVars, procVars>>

\* backup runs up to the count of the files of their kind
CaptureNext(jobs) ==
    \/ \E j \in jobs : StartBackup(j)
    \/ \E j \in jobs : StartAutoBackup(j)
    \/ \E j \in Jobs : Mkdir(j)
    \/ \E j \in Jobs : ReadTable(j)
    \/ \E j \in Jobs : WriteFile(j)
    \/ \E j \in Jobs : Readdir(j)
    \/ Tick

\* the pruning of a directory that holds more files than are kept
PruneNext ==
    \/ \E j \in Jobs : Stat(j)
    \/ \E j \in Jobs : Unlink(j)

\* a backup directory filled to the caps by earlier backups, one per millisecond
OldFiles(kind) ==
    {FileName(kind, 0 - age) : age \in 0..(KeepOf(kind) - 1)}

InitFullDirectory ==
    /\ job = [j \in Jobs |-> IdleJob]
    /\ files = [n \in OldFiles("manual") \cup OldFiles("auto") |->
                   [mtime |-> n.timestamp,
                    content |-> Envelope(n.kind, n.timestamp,
                                         [name \in DOMAIN NoData |-> TableRows(name)])]]
    /\ clock = 1

\* ------------------------------------------------------------------ restoreBackup
\* restoreBackup(backupFileName) is called: fs.readFile is its only await
StartRestore(j, name) ==
    /\ MayStart(j)
    /\ job' = [job EXCEPT ![j] = [IdleJob EXCEPT !.kind = "restore", !.pc = "readFile",
                                                  !.name = name]]
    /\ UNCHANGED <<files, clock, storeVars, appVars, procVars>>

\* a validation that looks at the data section only
HasData(backup) == "data" \in backup.sections

\* !(!backup.data || !backup.metadata)
HasDataAndMetadata(backup) == "data" \in backup.sections /\ "metadata" \in backup.sections

\* readFile returns, JSON.parse, the test of the two sections; every throw goes through
\* the catch, which throws `Backup restore failed: ${error.message}`. The rows of a
\* backup hold strings and numbers, which JSON.stringify and JSON.parse carry unchanged
ReadFile(j) ==
    /\ Running
    /\ job[j].pc = "readFile"
    /\ IF job[j].name \notin DOMAIN files
       THEN job' = [job EXCEPT ![j].pc = "done", ![j].result = "error",
                               ![j].failed = "ENOENT"]
       ELSE LET backup == files[job[j].name].content
            IN  IF HasDataAndMetadata(backup)
                THEN job' = [job EXCEPT ![j].pc = "done", ![j].result = "ok",
                                        ![j].backup = backup]
                ELSE job' = [job EXCEPT ![j].pc = "done", ![j].result = "error",
                                        ![j].failed = "Invalid backup file format"]
    /\ UNCHANGED <<files, clock, storeVars, appVars, procVars>>

\* restoreBackup calls for the files of the directory and for one that is not there
RestoreNext(jobs) ==
    \/ \E j \in jobs, name \in DOMAIN files \cup {FileName("upload", 0)} : StartRestore(j, name)
    \/ \E j \in Jobs : ReadFile(j)

\* ------------------------------------------------------------------ getBackupList
\* getBackupList is called: ensureBackupDir is its first await
StartList(j) ==
    /\ MayStart(j)
    /\ job' = [job EXCEPT ![j] = [IdleJob EXCEPT !.kind = "list", !.pc = "listMkdir"]]
    /\ UNCHANGED <<files, clock, storeVars, appVars, procVars>>

\* ensureBackupDir returns; fs.readdir starts
ListMkdir(j) ==
    /\ Running
    /\ job[j].pc = "listMkdir"
    /\ job' = [job EXCEPT ![j].pc = "listReaddir"]
    /\ UNCHANGED <<files, clock, storeVars, appVars, procVars>>

\* fs.readdir returns; files.filter(file => file.endsWith('.json')), which every file of
\* the directory does
ListReaddir(j) ==
    /\ Running
    /\ job[j].pc = "listReaddir"
    /\ job' = [job EXCEPT ![j].pc = "listStat", ![j].listing = DOMAIN files]
    /\ UNCHANGED <<files, clock, storeVars, appVars, procVars>>

\* file.startsWith('auto-') ? 'auto' : 'manual'
TypeOf(name) == IF name.kind = "auto" THEN "auto" ELSE "manual"

\* a sort that puts the oldest first
OldestFirst(stats) ==
    {order \in [1..Cardinality(stats) -> stats] :
        /\ \A a, b \in 1..Cardinality(stats) : a # b => order[a] # order[b]
        /\ \A a, b \in 1..Cardinality(stats) : a < b => order[a].created <= order[b].created}

\* backupFiles.sort((a, b) => new Date(b.created) - new Date(a.created)): the orders in
\* which no entry comes before a newer one (entries of one mtime in any order)
SortByCreated(stats) ==
    {order \in [1..Cardinality(stats) -> stats] :
        /\ \A a, b \in 1..Cardinality(stats) : a # b => order[a] # order[b]
        /\ \A a, b \in 1..Cardinality(stats) : a < b => order[a].created >= order[b].created}

\* Promise.all of the fs.stat calls, the sort and the return; a file that is gone
\* rejects and the catch throws `Failed to get backup list: ...`
ListStat(j) ==
    /\ Running
    /\ job[j].pc = "listStat"
    /\ IF job[j].listing \subseteq DOMAIN files
       THEN \E order \in SortByCreated({[name |-> n, created |-> files[n].mtime,
                                          type |-> TypeOf(n)] : n \in job[j].listing}) :
               job' = [job EXCEPT ![j].pc = "done", ![j].result = "ok",
                                  ![j].entries = order]
       ELSE job' = [job EXCEPT ![j].pc = "done", ![j].result = "error",
                               ![j].failed = "ENOENT"]
    /\ UNCHANGED <<files, clock, storeVars, appVars, procVars>>

\* getBackupList calls and their steps
BackupListNext(jobs) ==
    \/ \E j \in jobs : StartList(j)
    \/ \E j \in Jobs : ListMkdir(j)
    \/ \E j \in Jobs : ListReaddir(j)
    \/ \E j \in Jobs : ListStat(j)

\* ------------------------------------------------------------------ shutdown
\* process.on('SIGTERM' / 'SIGINT', () => this.shutdown()): shutdown() starts
\* this.backup.createBackup()
Signal(s) ==
    /\ shutdown[s].pc = "idle"
    /\ \E j \in Jobs :
          /\ MayStart(j)
          /\ job' = [job EXCEPT ![j] = [IdleJob EXCEPT !.kind = "manual", !.pc = "mkdir"]]
          /\ shutdown' = [shutdown EXCEPT ![s] = [pc |-> "backup", job |-> j]]
    /\ UNCHANGED <<files, clock, storeVars, appVars, server, boot>>

\* process.exit(code)
Exit(code) == server' = [server EXCEPT !.state = "exited", !.code = code]

\* createBackup has settled. Resolved: this.db.close() is called; on a handle that is
\* already closing sqlite rejects the call. Rejected: the catch logs and exits with 1
ShutdownBackupDone(s) ==
    /\ Running
    /\ shutdown[s].pc = "backup"
    /\ job[shutdown[s].job].pc = "done"
    /\ IF job[shutdown[s].job].result = "error"
       THEN /\ Exit(1)
            /\ shutdown' = [shutdown EXCEPT ![s].pc = "done"]
       ELSE /\ server' = [server EXCEPT !.closes = @ + 1,
                                        !.db = IF @ = "open" THEN "closing" ELSE @]
            /\ shutdown' = [shutdown EXCEPT ![s].pc = IF server.db = "open" THEN "close"
                                                      ELSE "misuse"]
    /\ UNCHANGED <<backupVars, storeVars, appVars, boot>>

\* the callback of db.close: the handle is closed and process.exit(0) follows, or close
\* rejects and the catch exits with 1
ShutdownClosed(s) ==
    /\ Running
    /\ shutdown[s].pc \in {"close", "misuse"}
    /\ \/ /\ shutdown[s].pc = "close"
          /\ server' = [server EXCEPT !.db = "closed", !.state = "exited", !.code = 0]
       \/ Exit(1)
    /\ shutdown' = [shutdown EXCEPT ![s].pc = "done"]
    /\ UNCHANGED <<backupVars, storeVars, appVars, boot>>

\* the signals of a termination, the backups they start and what can fail in them
NextShutdown ==
    \/ \E s \in Signals : Signal(s)
    \/ \E s \in Signals : ShutdownBackupDone(s)
    \/ \E s \in Signals : ShutdownClosed(s)
    \/ \E j \in Jobs : Mkdir(j)
    \/ \E j \in Jobs : ReadTable(j)
    \/ \E j \in Jobs : WriteFile(j)
    \/ \E j \in Jobs : Readdir(j)
    \/ BackupFaultNext

\* ------------------------------------------------------------------ createPatient
\* POST /api/patients: body('patientId').trim().isLength({ min: 1 })
PatientIdValid(patientId) == patientId # ""

ReqCreatePatient(c, patientId) ==
    /\ MayArrive(c)
    /\ IF PatientIdValid(patientId)
       THEN call' = [call EXCEPT ![c] = [IdleCall EXCEPT !.op = "createPatient",
                                            !.pc = "insertPatient", !.patientId = patientId,
                                            !.createdAt = clock]]
       ELSE call' = [call EXCEPT ![c] = [IdleCall EXCEPT !.op = "createPatient",
                                            !.pc = "done", !.patientId = patientId,
                                            !.status = ValidationFailed.status,
                                            !.error = ValidationFailed.error]]
    /\ UNCHANGED <<tables, backupVars, appVars, procVars>>

\* the catch of AngioServer.createPatient
CreatePatientCatch(message) ==
    IF IncludesUNIQUE(message)
    THEN [status |-> 409, error |-> "Patient ID already exists"]
    ELSE handleError("Failed to create patient")

\* the patients table without its UNIQUE constraint
PatientsUniqueOff(patientId) == TRUE

\* patient_id TEXT UNIQUE NOT NULL
PatientsUniqueOk(patientId) == PatientByPatientId(patientId) = {}

\* DatabaseManager.createPatient: the INSERT
InsertPatient(c) ==
    /\ call[c].pc = "insertPatient"
    /\ IF PatientsUniqueOk(call[c].patientId)
       THEN /\ patients' = Append(patients, [id |-> Len(patients) + 1,
                                             patient_id |-> call[c].patientId,
                                             created_at |-> call[c].createdAt])
            /\ call' = [call EXCEPT ![c].pc = "readPatient", ![c].patient = Len(patients) + 1]
       ELSE /\ Respond(c, CreatePatientCatch(ErrUniquePatient), ErrUniquePatient)
            /\ UNCHANGED patients
    /\ UNCHANGED <<users, studies, procedures, vessel_measurements, audit_log, backupVars, appVars, procVars>>

\* DatabaseManager.createPatient: getPatientById(result.lastID), then 201
ReadPatient(c) ==
    /\ call[c].pc = "readPatient"
    /\ Respond(c, [status |-> 201, error |-> ""], "")
    /\ UNCHANGED <<tables, backupVars, appVars, procVars>>

\* ------------------------------------------------------------------ createProcedure
\* the validator without its upper limit
IsFloatNoMax(v) == v >= 0

\* isFloat({ min: 0, max: 100 }), in tenths of a percent
IsFloatInRange(v) == v >= 0 /\ v <= 1000

\* POST /api/patients/:patientId/procedures: body('studyName').trim().isLength({ min: 1 }),
\* body('vesselData').isArray(), body('vesselData.*.vessel').trim().isLength({ min: 1 }),
\* body('vesselData.*.stenosisPercentage').isFloat({ min: 0, max: 100 });
\* a wildcard validator checks the elements there are, so an empty array passes
ProcedureBodyValid(studyName, vesselData) ==
    /\ studyName # ""
    /\ \A k \in 1..Len(vesselData) :
          /\ vesselData[k].vessel # ""
          /\ IsFloatInRange(vesselData[k].stenosisPercentage)

ReqCreateProcedureOn(c, patientId, studyName, vesselData, procedureDate) ==
    /\ MayArrive(c)
    /\ LET req == [IdleCall EXCEPT !.op = "createProcedure", !.patientId = patientId,
                                   !.studyName = studyName, !.vesselData = vesselData,
                                   !.procedureDate = procedureDate]
       IN  IF ProcedureBodyValid(studyName, vesselData)
           THEN call' = [call EXCEPT ![c] = [req EXCEPT !.pc = "getPatient"]]
           ELSE call' = [call EXCEPT ![c] = [req EXCEPT !.pc = "done",
                                                !.status = ValidationFailed.status,
                                                !.error = ValidationFailed.error]]
    /\ UNCHANGED <<tables, backupVars, appVars, procVars>>

\* the same request with the procedureDate of the spec's example
ReqCreateProcedure(c, patientId, studyName, vesselData) ==
    ReqCreateProcedureOn(c, patientId, studyName, vesselData, 1)

\* DatabaseManager.createProcedure called with procedureData that no validator has seen
DbCreateProcedure(c, patientId, studyName, vesselData) ==
    /\ MayArrive(c)
    /\ call' = [call EXCEPT ![c] = [IdleCall EXCEPT !.op = "db.createProcedure",
                                       !.pc = "getPatient", !.patientId = patientId,
                                       !.studyName = studyName, !.vesselData = vesselData,
                                       !.procedureDate = 1]]
    /\ UNCHANGED <<tables, backupVars, appVars, procVars>>

\* the catch of AngioServer.createProcedure
CreateProcedureCatch(message) == handleError("Failed to create procedure")

\* getPatientByPatientId, then throw new Error('Patient not found')
GetPatient(c) ==
    /\ call[c].pc = "getPatient"
    /\ LET found == PatientByPatientId(call[c].patientId)
       IN  IF found = {}
           THEN Respond(c, CreateProcedureCatch(ErrPatientNotFound), ErrPatientNotFound)
           ELSE call' = [call EXCEPT ![c].pc = "getStudy",
                                     ![c].patient = CHOOSE p \in found : TRUE]
    /\ UNCHANGED <<tables, backupVars, appVars, procVars>>

\* SELECT * FROM studies WHERE name = ?
GetStudy(c) ==
    /\ call[c].pc = "getStudy"
    /\ LET found == StudyByName(call[c].studyName)
       IN  IF found = {}
           THEN call' = [call EXCEPT ![c].pc = "insertStudy"]
           ELSE call' = [call EXCEPT ![c].pc = "insertProcedure",
                                     ![c].study = CHOOSE s \in found : TRUE]
    /\ UNCHANGED <<tables, backupVars, appVars, procVars>>

\* name TEXT UNIQUE NOT NULL
StudiesUniqueOk(name) == StudyByName(name) = {}

\* INSERT INTO studies (name, created_at)
InsertStudy(c) ==
    /\ call[c].pc = "insertStudy"
    /\ IF StudiesUniqueOk(call[c].studyName)
       THEN /\ studies' = Append(studies, [id |-> Len(studies) + 1,
                                           name |-> call[c].studyName])
            /\ call' = [call EXCEPT ![c].pc = "readStudy", ![c].study = Len(studies) + 1]
       ELSE /\ Respond(c, CreateProcedureCatch(ErrUniqueStudy), ErrUniqueStudy)
            /\ UNCHANGED studies
    /\ UNCHANGED <<users, patients, procedures, vessel_measurements, audit_log, backupVars, appVars, procVars>>

\* SELECT * FROM studies WHERE id = ?
ReadStudy(c) ==
    /\ call[c].pc = "readStudy"
    /\ Goto(c, "insertProcedure")
    /\ UNCHANGED <<tables, backupVars, appVars, procVars>>

\* the next await after the procedure row or a measurement row is in
AfterVessel(n, vesselData) == IF n < Len(vesselData) THEN "insertVessel" ELSE "readProcedure"

\* FOREIGN KEY (patient_id) REFERENCES patients (id), with PRAGMA foreign_keys = ON
ProcedureFkOk(patient) == patient \in 1..Len(patients)

\* an INSERT INTO procedures that takes no patient row and that no constraint stops
InsertProcedureOrphan(c) ==
    /\ call[c].pc = "insertProcedure"
    /\ procedures' = Append(procedures, [id |-> Len(procedures) + 1,
                                         patient_id |-> 0,
                                         study_id |-> call[c].study,
                                         study_name |-> call[c].studyName,
                                         procedure_date |-> call[c].procedureDate])
    /\ call' = [call EXCEPT ![c].pc = AfterVessel(0, call[c].vesselData),
                            ![c].procedureId = Len(procedures) + 1]
    /\ UNCHANGED <<users, patients, studies, vessel_measurements, audit_log, backupVars, appVars, procVars>>

\* INSERT INTO procedures
InsertProcedure(c) ==
    /\ call[c].pc = "insertProcedure"
    /\ ProcedureFkOk(call[c].patient)
    /\ procedures' = Append(procedures, [id |-> Len(procedures) + 1,
                                         patient_id |-> call[c].patient,
                                         study_id |-> call[c].study,
                                         study_name |-> call[c].studyName,
                                         procedure_date |-> call[c].procedureDate])
    /\ call' = [call EXCEPT ![c].pc = AfterVessel(0, call[c].vesselData),
                            ![c].procedureId = Len(procedures) + 1]
    /\ UNCHANGED <<users, patients, studies, vessel_measurements, audit_log, backupVars, appVars, procVars>>

\* the vessel_measurements table without its CHECK
StenosisCheckOff(v) == TRUE

\* CHECK(stenosis_percentage >= 0 AND stenosis_percentage <= 100)
StenosisCheckOk(v) == v >= 0 /\ v <= 1000

\* FOREIGN KEY (procedure_id) REFERENCES procedures (id)
VesselFkOk(procedureId) == procedureId \in 1..Len(procedures)

\* INSERT INTO vessel_measurements, one element of vesselData per await
InsertVessel(c) ==
    /\ call[c].pc = "insertVessel"
    /\ VesselFkOk(call[c].procedureId)
    /\ LET vessel == call[c].vesselData[call[c].i + 1]
       IN  IF StenosisCheckOk(vessel.stenosisPercentage)
           THEN /\ vessel_measurements' =
                      Append(vessel_measurements,
                             [id |-> Len(vessel_measurements) + 1,
                              procedure_id |-> call[c].procedureId,
                              vessel_name |-> vessel.vessel,
                              stenosis_percentage |-> vessel.stenosisPercentage])
                /\ call' = [call EXCEPT ![c].i = @ + 1,
                                        ![c].pc = AfterVessel(call[c].i + 1, call[c].vesselData)]
           ELSE /\ Respond(c, CreateProcedureCatch(ErrCheck), ErrCheck)
                /\ UNCHANGED vessel_measurements
    /\ UNCHANGED <<users, patients, studies, procedures, audit_log, backupVars, appVars, procVars>>

\* the closing SELECT of the procedure with its vessel data, then 201
ReadProcedure(c) ==
    /\ call[c].pc = "readProcedure"
    /\ Respond(c, [status |-> 201, error |-> ""], "")
    /\ UNCHANGED <<tables, backupVars, appVars, procVars>>

\* ------------------------------------------------------------------ getProcedures
ReqGetProcedures(c, patientId) ==
    /\ MayArrive(c)
    /\ call' = [call EXCEPT ![c] = [IdleCall EXCEPT !.op = "getProcedures",
                                       !.pc = "gpGetPatient", !.patientId = patientId]]
    /\ UNCHANGED <<tables, backupVars, appVars, procVars>>

\* the catch of AngioServer.getProcedures
GetProceduresCatch(message) == handleError("Failed to retrieve procedures")

GpGetPatient(c) ==
    /\ call[c].pc = "gpGetPatient"
    /\ LET found == PatientByPatientId(call[c].patientId)
       IN  IF found = {}
           THEN Respond(c, GetProceduresCatch(ErrPatientNotFound), ErrPatientNotFound)
           ELSE call' = [call EXCEPT ![c].pc = "gpSelect",
                                     ![c].patient = CHOOSE p \in found : TRUE]
    /\ UNCHANGED <<tables, backupVars, appVars, procVars>>

\* WHERE pr.patient_id = ?
ProceduresOf(patient) == {p \in 1..Len(procedures) : procedures[p].patient_id = patient}

\* ORDER BY pr.procedure_date DESC: the orders of these procedure rows in which no row
\* comes before one of a later date (rows of one date in any order)
DateDescending(rows) ==
    {order \in [1..Cardinality(rows) -> rows] :
        /\ \A a, b \in 1..Cardinality(rows) : a # b => order[a] # order[b]
        /\ \A a, b \in 1..Cardinality(rows) :
              a < b => procedures[order[a]].procedure_date >= procedures[order[b]].procedure_date}

\* LEFT JOIN vessel_measurements vm ON pr.id = vm.procedure_id: the measurement rows of
\* the procedure in rowid order, or one row of NULLs when it has none (0 is a NULL id,
\* "" a NULL text, -1 a NULL number)
LeftJoinVessels(procedureId) ==
    LET joins(vm) == vm.procedure_id = procedureId
        found == SelectSeq(vessel_measurements, joins)
    IN  IF found = <<>>
        THEN <<[id |-> 0, procedure_id |-> procedureId, vessel_name |-> "",
                stenosis_percentage |-> -1]>>
        ELSE found

\* json_object('id', vm.id, 'vessel_name', vm.vessel_name, 'stenosis_percentage', ...)
VesselObject(vm) ==
    [id |-> vm.id, vessel_name |-> vm.vessel_name,
     stenosis_percentage |-> vm.stenosis_percentage]

\* the json_object of getFullExport, which has no 'id'
ExportObject(vm) ==
    [vessel_name |-> vm.vessel_name, stenosis_percentage |-> vm.stenosis_percentage]

\* SELECT pr.*, json_group_array(json_object('id', ...)) as vessel_data ... GROUP BY pr.id
\* of getProcedures, in the given order
ProcedureRows(order) ==
    [k \in DOMAIN order |->
        LET pr == procedures[order[k]]
            joined == LeftJoinVessels(pr.id)
        IN  [id |-> pr.id, patient_id |-> pr.patient_id, study_name |-> pr.study_name,
             procedure_date |-> pr.procedure_date,
             vessel_data |-> [m \in 1..Len(joined) |-> VesselObject(joined[m])]]]

\* the same SELECT of getFullExport, whose json_object has no 'id'
ExportRows(order) ==
    [k \in DOMAIN order |->
        LET pr == procedures[order[k]]
            joined == LeftJoinVessels(pr.id)
        IN  [id |-> pr.id, patient_id |-> pr.patient_id, study_name |-> pr.study_name,
             procedure_date |-> pr.procedure_date,
             vessel_data |-> [m \in 1..Len(joined) |-> ExportObject(joined[m])]]]

\* the SELECT of DatabaseManager.getProcedures, then 200 with the rows
GpSelect(c) ==
    /\ call[c].pc = "gpSelect"
    /\ \E order \in DateDescending(ProceduresOf(call[c].patient)) :
          call' = [call EXCEPT ![c] = [@ EXCEPT !.pc = "done", !.status = 200,
                                               !.data = ProcedureRows(order)]]
    /\ UNCHANGED <<tables, backupVars, appVars, procVars>>

\* ------------------------------------------------------------------ getFullExport
\* GET /api/export/patients
ReqExport(c) ==
    /\ MayArrive(c)
    /\ call' = [call EXCEPT ![c] = [IdleCall EXCEPT !.op = "export", !.pc = "exPatients",
                                                     !.before = tables]]
    /\ UNCHANGED <<tables, backupVars, appVars, procVars>>

\* the catch of AngioServer.exportPatients
ExportCatch(message) == handleError("Failed to export data")

\* the place of a patient_id in the BINARY collation of the patient ids
Collate(patientId) ==
    CASE patientId = "" -> 0
      [] patientId = "P-100" -> 1
      [] patientId = "P-200" -> 2

\* SELECT p.* FROM patients p ... ORDER BY p.patient_id
ExSelectPatients(c) ==
    /\ call[c].pc = "exPatients"
    /\ LET order == CHOOSE o \in [1..Len(patients) -> 1..Len(patients)] :
                        /\ \A a, b \in 1..Len(patients) : a # b => o[a] # o[b]
                        /\ \A a, b \in 1..Len(patients) :
                              a < b => Collate(patients[o[a]].patient_id)
                                           < Collate(patients[o[b]].patient_id)
           rows == [k \in 1..Len(patients) |->
                      [id |-> patients[order[k]].id,
                       patient_id |-> patients[order[k]].patient_id,
                       procedures |-> <<>>]]
       IN  call' = [call EXCEPT ![c] =
                       [@ EXCEPT !.data = rows, !.i = 0,
                                 !.pc = IF rows = <<>> THEN "done" ELSE "exProcedures",
                                 !.status = IF rows = <<>> THEN 200 ELSE 0]]
    /\ UNCHANGED <<tables, backupVars, appVars, procVars>>

\* for (const patient of patients): patient.procedures = await this.all(...), one
\* patient per await; after the last one 200 with the patients
ExSelectProcedures(c) ==
    /\ call[c].pc = "exProcedures"
    /\ LET k == call[c].i + 1
           last == k = Len(call[c].data)
       IN  \E order \in DateDescending(ProceduresOf(call[c].data[k].id)) :
              call' = [call EXCEPT ![c] =
                          [@ EXCEPT !.data[k].procedures = ExportRows(order),
                                    !.i = k,
                                    !.pc = IF last THEN "done" ELSE "exProcedures",
                                    !.status = IF last THEN 200 ELSE 0]]
    /\ UNCHANGED <<tables, backupVars, appVars, procVars>>

\* export requests and their storage steps
ExportNext(calls) ==
    \/ \E c \in calls : ReqExport(c)
    \/ \E c \in Calls : ExSelectPatients(c)
    \/ \E c \in Calls : ExSelectProcedures(c)

\* ------------------------------------------------------------------ createUser
Emails == {"admin@lab.com", "ADMIN@lab.com", "new@lab.com", "New@lab.com"}

\* String.prototype.toLowerCase on the addresses above
toLowerCase(email) ==
    CASE email \in {"admin@lab.com", "ADMIN@lab.com"} -> "admin@lab.com"
      [] email \in {"new@lab.com", "New@lab.com"} -> "new@lab.com"
      [] OTHER -> email

\* body('email').isEmail().normalizeEmail() of the register route: the address reaches
\* the handler in lower case
normalizeEmail(email) == toLowerCase(email)

\* POST /api/auth/register by an authenticated admin, the body valid
ReqRegister(c, email) ==
    /\ MayArrive(c)
    /\ call' = [call EXCEPT ![c] = [IdleCall EXCEPT !.op = "register", !.pc = "insertUser",
                                       !.email = normalizeEmail(email)]]
    /\ UNCHANGED <<tables, backupVars, appVars, procVars>>

\* DatabaseManager.createUser called with userData that no route has normalized
DbCreateUser(c, email) ==
    /\ MayArrive(c)
    /\ call' = [call EXCEPT ![c] = [IdleCall EXCEPT !.op = "db.createUser",
                                       !.pc = "insertUser", !.email = email]]
    /\ UNCHANGED <<tables, backupVars, appVars, procVars>>

\* the catch of AuthController.register
RegisterCatch(message) ==
    IF IncludesUNIQUE(message)
    THEN [status |-> 409, error |-> "Email already exists"]
    ELSE handleError("Registration failed")

\* the users table without its UNIQUE constraint
UsersUniqueOff(email) == TRUE

\* email TEXT UNIQUE NOT NULL: sqlite compares TEXT byte by byte
UsersUniqueOk(email) == \A u \in 1..Len(users) : users[u].email # email

\* DatabaseManager.createUser: the INSERT
InsertUser(c) ==
    /\ call[c].pc = "insertUser"
    /\ IF UsersUniqueOk(call[c].email)
       THEN /\ users' = Append(users, [id |-> Len(users) + 1, email |-> call[c].email])
            /\ Goto(c, "readUser")
       ELSE /\ Respond(c, RegisterCatch(ErrUniqueUser), ErrUniqueUser)
            /\ UNCHANGED users
    /\ UNCHANGED <<patients, studies, procedures, vessel_measurements, audit_log, backupVars, appVars, procVars>>

\* DatabaseManager.createUser: getUserById(result.lastID), then 201
ReadUser(c) ==
    /\ call[c].pc = "readUser"
    /\ Respond(c, [status |-> 201, error |-> ""], "")
    /\ UNCHANGED <<tables, backupVars, appVars, procVars>>

\* users created through the register route and by direct calls of createUser
UserNext(calls, emails) ==
    \/ \E c \in calls, email \in emails : ReqRegister(c, email)
    \/ \E c \in calls, email \in emails : DbCreateUser(c, email)
    \/ \E c \in Calls : InsertUser(c)
    \/ \E c \in Calls : ReadUser(c)

\* ------------------------------------------------------------------ initialize
defaultUsers == <<"admin@lab.com", "tech@lab.com">>

\* a database file that does not exist yet, and a process that begins initialize
InitBlank ==
    /\ users = <<>>
    /\ patients = <<>>
    /\ studies = <<>>
    /\ procedures = <<>>
    /\ vessel_measurements = <<>>
    /\ audit_log = <<>>
    /\ call = [c \in Calls |-> IdleCall]
    /\ server = [state |-> "starting", code |-> 0, db |-> "open", closes |-> 0]
    /\ boot = [pc |-> "tables", i |-> 1, starts |-> 1, before |-> <<>>]
    /\ shutdown = [s \in Signals |-> IdleShutdown]

Booting(pc) == server.state = "starting" /\ boot.pc = pc

\* createTables: CREATE TABLE / INDEX IF NOT EXISTS, which change no row
CreateTables ==
    /\ Booting("tables")
    /\ boot' = [boot EXCEPT !.pc = "insertUser", !.i = 1]
    /\ UNCHANGED <<storeVars, backupVars, appVars, server, shutdown>>

\* after a default user: the next one, or the default study
AfterDefaultUser(i) == IF i < Len(defaultUsers) THEN "insertUser" ELSE "study"

\* createDefaultUsers: createUser(user), its UNIQUE error caught and skipped
BootInsertUser ==
    /\ Booting("insertUser")
    /\ IF UsersUniqueOk(defaultUsers[boot.i])
       THEN /\ users' = Append(users, [id |-> Len(users) + 1, email |-> defaultUsers[boot.i]])
            /\ boot' = [boot EXCEPT !.pc = "readUser"]
       ELSE /\ boot' = [boot EXCEPT !.pc = AfterDefaultUser(boot.i), !.i = @ + 1]
            /\ UNCHANGED users
    /\ UNCHANGED <<patients, studies, procedures, vessel_measurements, audit_log, call,
                   backupVars, appVars, server, shutdown>>

\* createUser: getUserById(result.lastID)
BootReadUser ==
    /\ Booting("readUser")
    /\ boot' = [boot EXCEPT !.pc = AfterDefaultUser(boot.i), !.i = @ + 1]
    /\ UNCHANGED <<storeVars, backupVars, appVars, server, shutdown>>

\* INSERT OR IGNORE INTO studies ... 'VIKING'; initialize returns and the server listens
BootStudy ==
    /\ Booting("study")
    /\ studies' = IF StudiesUniqueOk("VIKING")
                  THEN Append(studies, [id |-> Len(studies) + 1, name |-> "VIKING"])
                  ELSE studies
    /\ boot' = [boot EXCEPT !.pc = "done"]
    /\ server' = [server EXCEPT !.state = "running"]
    /\ UNCHANGED <<users, patients, procedures, vessel_measurements, audit_log, call,
                   backupVars, appVars, shutdown>>

\* a storage call of initialize rejects: before the default study, initialize throws and
\* start() exits with 1; the INSERT of the default study has a catch that ignores it
BootError ==
    /\ server.state = "starting"
    /\ IF boot.pc = "study"
       THEN /\ boot' = [boot EXCEPT !.pc = "done"]
            /\ server' = [server EXCEPT !.state = "running"]
       ELSE /\ boot' = [boot EXCEPT !.pc = "failed"]
            /\ server' = [server EXCEPT !.state = "exited", !.code = 1]
    /\ UNCHANGED <<storeVars, backupVars, appVars, shutdown>>

\* the process ends, whatever it was doing, and is started again on the same database
\* file: requests in flight are gone, the rows are as the last statement left them
Restart ==
    /\ boot.starts < MaxStarts
    /\ server' = [state |-> "starting", code |-> 0, db |-> "open", closes |-> 0]
    /\ boot' = [pc |-> "tables", i |-> 1, starts |-> boot.starts + 1, before |-> tables]
    /\ call' = [c \in Calls |-> IdleCall]
    /\ UNCHANGED <<tables, backupVars, appVars, shutdown>>

BootNext ==
    \/ CreateTables
    \/ BootInsertUser
    \/ BootReadUser
    \/ BootStudy
    \/ BootError
    \/ Restart

\* ------------------------------------------------------------------ getPatients
\* getPatients(limit = 100, offset = 0), which the handler calls without arguments
defaultLimit == 100

ReqGetPatients(c) ==
    /\ MayArrive(c)
    /\ call' = [call EXCEPT ![c] = [IdleCall EXCEPT !.op = "getPatients",
                                       !.pc = "getPatients"]]
    /\ UNCHANGED <<tables, backupVars, appVars, procVars>>

\* the catch of AngioServer.getPatients
GetPatientsCatch(message) == handleError("Failed to retrieve patients")

\* a join that pairs every procedure with every patient
JoinsAny(pr, p) == TRUE

\* LEFT JOIN procedures pr ON p.id = pr.patient_id
JoinsPatient(pr, p) == pr.patient_id = p.id

\* a count that was taken when the patient was inserted
ProcedureCountCached(p) == 0

\* COUNT(pr.id) ... GROUP BY p.id
ProcedureCount(p) ==
    Cardinality({pr \in 1..Len(procedures) : JoinsPatient(procedures[pr], p)})

\* ORDER BY p.created_at DESC: the orders of the patient rows in which no row comes
\* before a newer one (rows of one created_at in any order)
NewestFirst ==
    {order \in [1..Len(patients) -> 1..Len(patients)] :
        /\ \A a, b \in 1..Len(patients) : a # b => order[a] # order[b]
        /\ \A a, b \in 1..Len(patients) :
              a < b => patients[order[a]].created_at >= patients[order[b]].created_at}

\* a page that starts one row late
PageSkipsFirst(rows, limit, offset) ==
    SubSeq(rows, offset + 2,
           IF Len(rows) < offset + limit THEN Len(rows) ELSE offset + limit)

\* LIMIT ? OFFSET ?
Page(rows, limit, offset) ==
    SubSeq(rows, offset + 1,
           IF Len(rows) < offset + limit THEN Len(rows) ELSE offset + limit)

\* the one SELECT of DatabaseManager.getPatients, then 200 with the rows
SelectPatients(c) ==
    /\ call[c].pc = "getPatients"
    /\ \E order \in NewestFirst :
          LET rows == [k \in 1..Len(patients) |->
                         [id |-> patients[order[k]].id,
                          patient_id |-> patients[order[k]].patient_id,
                          created_at |-> patients[order[k]].created_at,
                          procedure_count |-> ProcedureCount(patients[order[k]])]]
          IN  call' = [call EXCEPT ![c] = [@ EXCEPT !.pc = "done", !.status = 200,
                                                   !.data = Page(rows, defaultLimit, 0)]]
    /\ UNCHANGED <<tables, backupVars, appVars, procVars>>

\* getPatients requests and their storage step
ListNext(calls) ==
    \/ \E c \in calls : ReqGetPatients(c)
    \/ \E c \in Calls : SelectPatients(c)

\* ------------------------------------------------------------------ storage errors
StoragePcs == {"insertPatient", "readPatient", "getPatient", "getStudy", "insertStudy",
               "readStudy", "insertProcedure", "insertVessel", "readProcedure",
               "gpGetPatient", "gpSelect", "getPatients", "insertUser", "readUser",
               "exPatients", "exProcedures"}

Catch(op, message) ==
    CASE op = "createPatient" -> CreatePatientCatch(message)
      [] op = "createProcedure" -> CreateProcedureCatch(message)
      [] op = "getProcedures" -> GetProceduresCatch(message)
      [] op = "getPatients" -> GetPatientsCatch(message)
      [] op = "export" -> ExportCatch(message)
      [] op = "register" -> RegisterCatch(message)
      [] op \in DirectOps -> handleError("")

\* run/get/all reject with the engine's error, which any storage call may do; the
\* handler's catch answers
StorageError(c) ==
    /\ call[c].pc \in StoragePcs
    /\ Respond(c, Catch(call[c].op, ErrStorage), ErrStorage)
    /\ UNCHANGED <<tables, backupVars, appVars, procVars>>

\* ------------------------------------------------------------------ the browser store
AppPatientIds == {"A-1", "A-2", "A 3"}
AppNames == {"Ann", "B"}
AppTypes == {"", "angiography"}
AppDates == 0..2
AppIds == 0..MaxIds

NoAppCall == [op |-> "none", id |-> 0, patientId |-> "", ok |-> FALSE]

\* new AppState() on an empty localStorage
InitApp ==
    /\ appPatients = <<>>
    /\ appAssessments = <<>>
    /\ localStorage = [patients |-> <<>>, assessments |-> <<>>, activities |-> <<>>,
                       users |-> <<>>, session |-> ""]
    /\ nextId = 0
    /\ appLast = NoAppCall
    /\ appPrev = [patients |-> <<>>, assessments |-> <<>>,
                  localStorage |-> [patients |-> <<>>, assessments |-> <<>>,
                                    activities |-> <<>>, users |-> <<>>, session |-> ""],
                  last |-> NoAppCall]

Remember ==
    appPrev' = [patients |-> appPatients, assessments |-> appAssessments,
                localStorage |-> localStorage, last |-> appLast]

Returned(op, id, patientId, ok) ==
    appLast' = [op |-> op, id |-> id, patientId |-> patientId, ok |-> ok]

\* /^[A-Za-z0-9-]+$/.test(patient.patientId), patient.name.trim().length >= 2; the
\* age and the gender of the inputs are valid
validatePatient(patient) ==
    /\ patient.patientId \in {"A-1", "A-2"}
    /\ patient.name \in {"Ann"}

\* the type is chosen, and the date is given and not after today
validateAssessment(assessment) ==
    /\ assessment.patientId # 0
    /\ assessment.type # ""
    /\ assessment.date # 0
    /\ ~(assessment.date > clock)

\* activities.unshift(entry); activities.splice(50)
activityLimit == 50

Unshift(activities, message) ==
    SubSeq(<<message>> \o activities, 1,
           IF Len(activities) + 1 > activityLimit THEN activityLimit
           ELSE Len(activities) + 1)

\* AppState.addPatient; localStorage.setItem is taken to succeed in saveToStorage
addPatient(patient) ==
    /\ nextId < MaxIds
    /\ Remember
    /\ IF /\ validatePatient(patient)
          /\ ~\E i \in 1..Len(appPatients) : appPatients[i].patientId = patient.patientId
       THEN LET newPatient == [id |-> nextId + 1, patientId |-> patient.patientId,
                               name |-> patient.name]
                stored == Append(appPatients, newPatient)
            IN  /\ appPatients' = stored
                /\ nextId' = nextId + 1
                /\ localStorage' =
                      [localStorage EXCEPT
                          !.patients = stored,
                          !.activities = Unshift(@, [message |-> "Added new patient",
                                                     of |-> patient.name])]
                /\ Returned("addPatient", 0, patient.patientId, TRUE)
       ELSE /\ Returned("addPatient", 0, patient.patientId, FALSE)
            /\ UNCHANGED <<appPatients, nextId, localStorage>>
    /\ UNCHANGED <<appAssessments, storeVars, backupVars, procVars>>

\* AppState.addAssessment
addAssessment(assessment) ==
    /\ nextId < MaxIds
    /\ Remember
    /\ IF validateAssessment(assessment)
       THEN LET newAssessment == [id |-> nextId + 1, patientId |-> assessment.patientId,
                                  type |-> assessment.type, date |-> assessment.date]
                stored == Append(appAssessments, newAssessment)
            IN  /\ appAssessments' = stored
                /\ nextId' = nextId + 1
                /\ localStorage' =
                      [localStorage EXCEPT
                          !.assessments = stored,
                          !.activities = Unshift(@, [message |-> "Added new assessment",
                                                     of |-> "patient"])]
                /\ Returned("addAssessment", assessment.patientId, "", TRUE)
       ELSE /\ Returned("addAssessment", assessment.patientId, "", FALSE)
            /\ UNCHANGED <<appAssessments, nextId, localStorage>>
    /\ UNCHANGED <<appPatients, storeVars, backupVars, procVars>>

\* a findIndex that stops at the first patient whatever its id
findIndexFirst(id) == IF Len(appPatients) > 0 THEN 1 ELSE 0

\* this.patients.findIndex(p => p.id === id), 0 standing for -1
findIndex(id) ==
    IF \E i \in 1..Len(appPatients) : appPatients[i].id = id
    THEN CHOOSE i \in 1..Len(appPatients) :
            /\ appPatients[i].id = id
            /\ \A k \in 1..(i - 1) : appPatients[k].id # id
    ELSE 0

\* a filter that keeps every assessment
filterNothing(id) == appAssessments

\* this.assessments.filter(a => a.patientId !== id)
filterAssessments(id) ==
    LET keep(a) == a.patientId # id IN SelectSeq(appAssessments, keep)

\* this.patients.splice(patientIndex, 1)
Splice(seq, index) == SubSeq(seq, 1, index - 1) \o SubSeq(seq, index + 1, Len(seq))

\* AppState.deletePatient
deletePatient(id) ==
    /\ Remember
    /\ LET patientIndex == findIndex(id)
       IN  IF patientIndex = 0
           THEN /\ Returned("deletePatient", id, "", FALSE)
                /\ UNCHANGED <<appPatients, appAssessments, localStorage>>
           ELSE LET patient == appPatients[patientIndex]
                    assessments == filterAssessments(id)
                    stored == Splice(appPatients, patientIndex)
                IN  /\ appAssessments' = assessments
                    /\ appPatients' = stored
                    /\ localStorage' =
                          [localStorage EXCEPT
                              !.assessments = assessments,
                              !.patients = stored,
                              !.activities = Unshift(@, [message |-> "Deleted patient",
                                                         of |-> patient.name])]
                    /\ Returned("deletePatient", id, "", TRUE)
    /\ UNCHANGED <<nextId, storeVars, backupVars, procVars>>

\* the updatePatient calls that have succeeded, which the activity log shows
Updates ==
    Cardinality({i \in 1..Len(localStorage.activities) :
                    localStorage.activities[i].message = "Updated patient"})

\* AppState.updatePatient: the stored patient with the fields of updatedData over it; no
\* validation and no test for a duplicate patientId
updatePatient(id, updatedData) ==
    /\ Updates < MaxUpdates
    /\ Remember
    /\ LET index == findIndex(id)
       IN  IF index = 0
           THEN /\ Returned("updatePatient", id, updatedData.patientId, FALSE)
                /\ UNCHANGED <<appPatients, localStorage>>
           ELSE LET stored == [appPatients EXCEPT
                                  ![index] = [@ EXCEPT !.patientId = updatedData.patientId,
                                                       !.name = updatedData.name]]
                IN  /\ appPatients' = stored
                    /\ localStorage' =
                          [localStorage EXCEPT
                              !.patients = stored,
                              !.activities = Unshift(@, [message |-> "Updated patient",
                                                         of |-> updatedData.name])]
                    /\ Returned("updatePatient", id, updatedData.patientId, TRUE)
    /\ UNCHANGED <<appAssessments, nextId, storeVars, backupVars, procVars>>

\* ------------------------------------------------------------------ Auth
Passwords == {<<49>>, <<50>>}

\* one round of Auth.hashPassword: hash = ((hash << 5) - hash) + char; hash = hash & hash,
\* which is 31 * hash + char in 32 bits, signed; computed on the two 16-bit halves
hashStep(hash, char) ==
    LET low == 31 * (hash % 65536) + char
        high == (31 * ((hash \div 65536) % 65536) + (low \div 65536)) % 65536
    IN  (IF high >= 32768 THEN high - 65536 ELSE high) * 65536 + (low % 65536)

RECURSIVE hashFrom(_, _)
hashFrom(hash, codes) ==
    IF codes = <<>> THEN hash ELSE hashFrom(hashStep(hash, Head(codes)), Tail(codes))

hashPassword(password) == hashFrom(0, password)

\* user.email === userData.email
SameEmail(stored, given) == stored = given

\* Auth.register
register(userData) ==
    /\ Len(localStorage.users) < MaxUsers
    /\ Remember
    /\ IF \E u \in 1..Len(localStorage.users) :
             SameEmail(localStorage.users[u].email, userData.email)
       THEN /\ Returned("register", 0, userData.email, FALSE)
            /\ UNCHANGED localStorage
       ELSE /\ localStorage' =
                  [localStorage EXCEPT
                      !.users = Append(@, [email |-> toLowerCase(userData.email),
                                           password |-> hashPassword(userData.password)])]
            /\ Returned("register", 0, userData.email, TRUE)
    /\ UNCHANGED <<appPatients, appAssessments, nextId, storeVars, backupVars, procVars>>

\* Auth.login: the first user of that email, lower-cased, and that password hash
login(email, password) ==
    /\ Remember
    /\ LET match == {u \in 1..Len(localStorage.users) :
                        /\ localStorage.users[u].email = toLowerCase(email)
                        /\ localStorage.users[u].password = hashPassword(password)}
       IN  IF match = {}
           THEN /\ Returned("login", 0, email, FALSE)
                /\ UNCHANGED localStorage
           ELSE /\ localStorage' = [localStorage EXCEPT !.session = toLowerCase(email)]
                /\ Returned("login", 0, email, TRUE)
    /\ UNCHANGED <<appPatients, appAssessments, nextId, storeVars, backupVars, procVars>>

\* Auth.logout
logout ==
    /\ localStorage.session # ""
    /\ Remember
    /\ localStorage' = [localStorage EXCEPT !.session = ""]
    /\ Returned("logout", 0, "", TRUE)
    /\ UNCHANGED <<appPatients, appAssessments, nextId, storeVars, backupVars, procVars>>

NextAuth ==
    \/ \E email \in Emails, password \in Passwords :
          register([email |-> email, password |-> password])
    \/ \E email \in Emails, password \in Passwords : login(email, password)
    \/ logout

\* the browser store with updatePatient
NextAppUpdate ==
    \/ \E patientId \in AppPatientIds, name \in AppNames :
          addPatient([patientId |-> patientId, name |-> name])
    \/ \E id \in AppIds, patientId \in AppPatientIds, name \in AppNames :
          updatePatient(id, [patientId |-> patientId, name |-> name])
    \/ \E id \in AppIds : deletePatient(id)

NextApp ==
    \/ \E patientId \in AppPatientIds, name \in AppNames :
          addPatient([patientId |-> patientId, name |-> name])
    \/ \E id \in AppIds, type \in AppTypes, date \in AppDates :
          addAssessment([patientId |-> id, type |-> type, date |-> date])
    \/ \E id \in AppIds : deletePatient(id)

Init == InitStore /\ InitBackups /\ InitApp /\ InitServer

SpecApp == Init /\ [][NextApp]_vars

SpecAppUpdate == Init /\ [][NextAppUpdate]_vars

SpecAuth == Init /\ [][NextAuth]_vars

\* createPatient requests and their storage steps
PatientNext(calls, patientIds) ==
    \/ \E c \in calls, patientId \in patientIds : ReqCreatePatient(c, patientId)
    \/ \E c \in Calls : InsertPatient(c)
    \/ \E c \in Calls : ReadPatient(c)

\* createProcedure requests and their storage steps
ProcedureNext(calls, patientIds, studyNames, vesselInputs) ==
    \/ \E c \in calls, patientId \in patientIds, studyName \in studyNames,
          vesselData \in vesselInputs : ReqCreateProcedure(c, patientId, studyName, vesselData)
    \/ \E c \in Calls : GetPatient(c)
    \/ \E c \in Calls : GetStudy(c)
    \/ \E c \in Calls : InsertStudy(c)
    \/ \E c \in Calls : ReadStudy(c)
    \/ \E c \in Calls : InsertProcedure(c)
    \/ \E c \in Calls : InsertVessel(c)
    \/ \E c \in Calls : ReadProcedure(c)

\* getProcedures requests and their storage steps
ReadNext(calls, patientIds) ==
    \/ \E c \in calls, patientId \in patientIds : ReqGetProcedures(c, patientId)
    \/ \E c \in Calls : GpGetPatient(c)
    \/ \E c \in Calls : GpSelect(c)

FaultNext == \E c \in Calls : StorageError(c)

\* the record store under concurrent requests
Next ==
    \/ PatientNext(Calls, PatientIds \cup {""})
    \/ ProcedureNext(Calls, PatientIds, StudyNames, VesselSample)
    \/ ReadNext(Calls, PatientIds)
    \/ FaultNext

Spec == Init /\ [][Next]_vars

\* the store once a first createPatient has been answered
InitOnePatient ==
    /\ users = <<[id |-> 1, email |-> "admin@lab.com"], [id |-> 2, email |-> "tech@lab.com"]>>
    /\ patients = <<[id |-> 1, patient_id |-> "P-100", created_at |-> 0]>>
    /\ studies = <<[id |-> 1, name |-> "VIKING"]>>
    /\ procedures = <<>>
    /\ vessel_measurements = <<>>
    /\ audit_log = <<>>
    /\ call = [c \in Calls |-> IdleCall]
    /\ InitBackups
    /\ InitApp
    /\ InitServer

\* the store of the spec's example: patient P-100 with one procedure, LAD at 75.0
InitOneProcedure ==
    /\ users = <<[id |-> 1, email |-> "admin@lab.com"], [id |-> 2, email |-> "tech@lab.com"]>>
    /\ patients = <<[id |-> 1, patient_id |-> "P-100", created_at |-> 0]>>
    /\ studies = <<[id |-> 1, name |-> "VIKING"]>>
    /\ procedures = <<[id |-> 1, patient_id |-> 1, study_id |-> 1, study_name |-> "VIKING",
                       procedure_date |-> 2]>>
    /\ vessel_measurements = <<[id |-> 1, procedure_id |-> 1, vessel_name |-> "LAD",
                                stenosis_percentage |-> 750]>>
    /\ audit_log = <<>>
    /\ call = [c \in Calls |-> IdleCall]
    /\ InitBackups
    /\ InitApp
    /\ InitServer

\* a procedure added to that store, then the procedures read back or exported, and a
\* manual backup taken and retrieved
NextExport ==
    \/ \E c \in {1}, vesselData \in {VesselData(<<>>), VesselData(<<0>>)},
          procedureDate \in ProcedureDates :
          ReqCreateProcedureOn(c, "P-100", "VIKING", vesselData, procedureDate)
    \/ \E c \in Calls : GetPatient(c)
    \/ \E c \in Calls : GetStudy(c)
    \/ \E c \in Calls : InsertProcedure(c)
    \/ \E c \in Calls : InsertVessel(c)
    \/ \E c \in Calls : ReadProcedure(c)
    \/ ReadNext(Calls \ {1}, PatientIds)
    \/ ExportNext(Calls \ {1})
    \/ \E j \in {1} : StartBackup(j)
    \/ \E j \in Jobs : Mkdir(j)
    \/ \E j \in Jobs : ReadTable(j)
    \/ \E j \in Jobs : WriteFile(j)
    \/ \E j \in Jobs : Readdir(j)
    \/ RestoreNext(Jobs \ {1})

SpecExport == InitOneProcedure /\ [][NextExport]_vars

\* a backup directory that holds a manual and an auto backup of the store and two
\* uploaded files, one without its metadata and one without its data
InitArtifactFiles ==
    /\ job = [j \in Jobs |-> IdleJob]
    /\ files = [n \in {FileName("manual", -1), FileName("auto", 0),
                        FileName("upload", 1), FileName("upload", 2)} |->
                   LET data == [name \in DOMAIN NoData |-> TableRows(name)]
                   IN  CASE n.kind = "manual" ->
                              [mtime |-> -1, content |-> ManualEnvelope(-1, data)]
                         [] n.kind = "auto" ->
                              [mtime |-> 0, content |-> AutoEnvelope(0, data)]
                         [] n.timestamp = 1 ->
                              [mtime |-> -2,
                               content |-> [ManualEnvelope(-2, data) EXCEPT
                                               !.sections = {"data"}]]
                         [] n.timestamp = 2 ->
                              [mtime |-> -3,
                               content |-> [ManualEnvelope(-3, data) EXCEPT
                                               !.sections = {"metadata"}]]]
    /\ clock = 1

\* one backup run while artifacts are listed and retrieved
NextArtifacts ==
    \/ CaptureNext({1})
    \/ RestoreNext(Jobs)
    \/ BackupListNext(Jobs)

InitArtifacts == InitStore /\ InitArtifactFiles /\ InitApp /\ InitServer

SpecArtifacts == InitArtifacts /\ [][NextArtifacts]_vars

\* the request validation of createProcedure: every vesselData array of up to MaxVessels
\* measurements, sent by up to MaxChecked requests to a store that holds one patient
NextValidation ==
    \/ ProcedureNext(1..MaxChecked, {"P-100"}, StudyNames, VesselInputs)
    \/ FaultNext

SpecValidation == InitOnePatient /\ [][NextValidation]_vars

\* one backup run while createPatient and createProcedure requests are served
NextSnapshot ==
    \/ PatientNext(Calls, {"P-100"})
    \/ ProcedureNext(Calls, {"P-100"}, {"CORE"}, {VesselData(<<0>>)})
    \/ CaptureNext({1})

SpecSnapshot == Init /\ [][NextSnapshot]_vars

\* concurrent backup runs on a full backup directory, the store at rest
NextBackup ==
    \/ CaptureNext(Jobs)
    \/ PruneNext

InitBackup == InitStore /\ InitFullDirectory /\ InitApp /\ InitServer

SpecBackup == InitBackup /\ [][NextBackup]_vars

SpecShutdown == Init /\ [][NextShutdown]_vars

\* one manual backup and the auto backups of the timer on a full backup directory,
\* within one millisecond
NextPrune ==
    \/ \E j \in {1} : StartBackup(j)
    \/ \E j \in Jobs \ {1} : StartAutoBackup(j)
    \/ \E j \in Jobs : Mkdir(j)
    \/ \E j \in Jobs : ReadTable(j)
    \/ \E j \in Jobs : WriteFile(j)
    \/ \E j \in Jobs : Readdir(j)
    \/ PruneNext

SpecPrune == InitBackup /\ [][NextPrune]_vars

\* concurrent createProcedure requests for one patient, no storage error
NextStudyRace == ProcedureNext(Calls, {"P-100"}, StudyNames, {VesselData(<<0>>)})

SpecStudyRace == InitOnePatient /\ [][NextStudyRace]_vars

\* DatabaseManager.createProcedure called directly with every vesselData array of up to
\* MaxVessels measurements
NextStore ==
    \/ \E c \in 1..MaxChecked, vesselData \in VesselInputs :
          DbCreateProcedure(c, "P-100", "CORE", vesselData)
    \/ \E c \in Calls : GetPatient(c)
    \/ \E c \in Calls : GetStudy(c)
    \/ \E c \in Calls : InsertStudy(c)
    \/ \E c \in Calls : ReadStudy(c)
    \/ \E c \in Calls : InsertProcedure(c)
    \/ \E c \in Calls : InsertVessel(c)
    \/ \E c \in Calls : ReadProcedure(c)

SpecStore == InitOnePatient /\ [][NextStore]_vars

\* users created by concurrent calls
NextUsers == UserNext(Calls, Emails)

SpecUsers == Init /\ [][NextUsers]_vars

\* the server started, serving requests and started again
NextStartup ==
    \/ BootNext
    \/ PatientNext(Calls, {"P-100"})
    \/ \E c \in Calls : ReqRegister(c, "new@lab.com")
    \/ \E c \in Calls : InsertUser(c)
    \/ \E c \in Calls : ReadUser(c)

InitStartup == InitBlank /\ InitBackups /\ InitApp

SpecStartup == InitStartup /\ [][NextStartup]_vars

\* listPatients while patients and procedures are created, the clock running
NextList ==
    \/ PatientNext(Calls, {"P-200"})
    \/ ProcedureNext(Calls, PatientIds, {"CORE"}, {VesselData(<<0>>)})
    \/ ListNext(Calls)
    \/ FaultNext
    \/ Tick

SpecList == InitOnePatient /\ [][NextList]_vars

\* backup runs in which any step may fail
NextBackupFaults ==
    \/ CaptureNext(Jobs)
    \/ BackupFaultNext

SpecBackupFaults == Init /\ [][NextBackupFaults]_vars

\* the auto backups of the timer, in which any step may fail
NextAutoFaults ==
    \/ \E j \in Jobs : StartAutoBackup(j)
    \/ \E j \in Jobs : Mkdir(j)
    \/ \E j \in Jobs : ReadTable(j)
    \/ \E j \in Jobs : WriteFile(j)
    \/ \E j \in Jobs : Readdir(j)
    \/ BackupFaultNext
    \/ Tick

SpecAutoFaults == Init /\ [][NextAutoFaults]_vars

\* ------------------------------------------------------------------ what a request left behind
Finished(c, op) == call[c].op = op /\ call[c].pc = "done"

\* the procedure row a createProcedure request inserted, and its measurement rows
ProcedureRowsOf(c) == {p \in 1..Len(procedures) : procedures[p].id = call[c].procedureId}
MeasurementRowsOf(c) ==
    {m \in 1..Len(vessel_measurements) :
        vessel_measurements[m].procedure_id = call[c].procedureId}

AllInRange(vesselData) ==
    \A k \in 1..Len(vesselData) :
        vesselData[k].stenosisPercentage >= 0 /\ vesselData[k].stenosisPercentage <= 1000

\* ------------------------------------------------------------------ claims
\* C1: createProcedure is atomic: when a request has ended, its procedure row and all of
\* its measurement rows are in the store, or none of them is.
C1_CreateProcedureAtomic ==
    \A c \in Calls :
        Finished(c, "createProcedure") =>
            \/ /\ ProcedureRowsOf(c) # {}
               /\ Cardinality(MeasurementRowsOf(c)) = Len(call[c].vesselData)
            \/ /\ ProcedureRowsOf(c) = {}
               /\ MeasurementRowsOf(c) = {}

\* the createPatient requests that name one patient_id
CreatePatientCalls(patientId) ==
    {c \in Calls : call[c].op = "createPatient" /\ call[c].patientId = patientId}

\* C2: when two or more createPatient requests with the same patient_id have all ended,
\* none of them on a storage error, exactly one was answered 201 and every other one
\* 409 Conflict, and the store holds exactly one patient row with that patient_id; the
\* store never holds two.
C2_CreatePatientRace ==
    \A patientId \in PatientIds :
        LET cs == CreatePatientCalls(patientId)
        IN  /\ Cardinality(PatientByPatientId(patientId)) <= 1
            /\ (/\ Cardinality(cs) >= 2
                /\ \A c \in cs : call[c].pc = "done" /\ call[c].thrown # ErrStorage)
               => /\ Cardinality({c \in cs : call[c].status = 201}) = 1
                  /\ \A c \in cs : call[c].status \in {201, 409}
                  /\ \A c \in cs : call[c].status = 409 =>
                        call[c].error = "Patient ID already exists"
                  /\ Cardinality(PatientByPatientId(patientId)) = 1

\* C2 witness: the request that arrived second won the race and the first got Conflict
C2_Witness ==
    /\ MaxCalls >= 2
    /\ Finished(1, "createPatient") /\ Finished(2, "createPatient")
    /\ call[1].patientId = call[2].patientId
    /\ call[1].status = 409 /\ call[2].status = 201

\* C4: a createPatient answered 201 left an audit entry with action create and table
\* patients for the row it inserted.
C4_CreatePatientAudited ==
    \A c \in Calls :
        (Finished(c, "createPatient") /\ call[c].status = 201) =>
            \E a \in 1..Len(audit_log) :
                /\ audit_log[a].action = "create"
                /\ audit_log[a].table_name = "patients"
                /\ audit_log[a].record_id = call[c].patient

\* C8: createProcedure with an empty vesselData array leaves no procedure row, and
\* unless the store threw first it is answered Validation.
C8_EmptyVesselDataRejected ==
    \A c \in Calls :
        (Finished(c, "createProcedure") /\ call[c].vesselData = <<>>) =>
            /\ ProcedureRowsOf(c) = {}
            /\ call[c].thrown = "" => call[c].status = ValidationFailed.status

\* C9: a createProcedure request with a measurement outside [0,100] at any position is
\* answered Validation and persists nothing; one whose measurements are all within
\* [0,100], 0 and 100 included, is never refused for its measurements, and when it is
\* answered 201 all of them are stored; every procedure row comes from a request whose
\* measurements were all in range.
C9_StenosisRangeValidated ==
    /\ \A c \in Calls :
          Finished(c, "createProcedure") =>
              IF AllInRange(call[c].vesselData)
              THEN /\ call[c].status # ValidationFailed.status
                   /\ call[c].thrown # ErrCheck
                   /\ call[c].status = 201 =>
                         /\ ProcedureRowsOf(c) # {}
                         /\ Cardinality(MeasurementRowsOf(c)) = Len(call[c].vesselData)
              ELSE /\ call[c].status = ValidationFailed.status
                   /\ call[c].error = ValidationFailed.error
                   /\ ProcedureRowsOf(c) = {}
                   /\ MeasurementRowsOf(c) = {}
    /\ \A p \in 1..Len(procedures) :
          \E c \in Calls : /\ call[c].op = "createProcedure"
                           /\ call[c].procedureId = procedures[p].id
                           /\ AllInRange(call[c].vesselData)
    /\ \A m \in 1..Len(vessel_measurements) :
          \E c \in Calls : m \in MeasurementRowsOf(c) /\ AllInRange(call[c].vesselData)

\* C9 witness: the patient exists, and a request whose first measurement is 0 and whose
\* second is 100.1 was refused
C9_Witness ==
    \E c \in Calls :
        /\ Finished(c, "createProcedure")
        /\ PatientByPatientId(call[c].patientId) # {}
        /\ Len(call[c].vesselData) >= 2
        /\ call[c].vesselData[1].stenosisPercentage = 0
        /\ call[c].vesselData[2].stenosisPercentage = 1001
        /\ call[c].status = ValidationFailed.status

\* C10: createProcedure and getProcedures for a patient id that does not exist are
\* answered with something other than the generic answer to a storage failure.
C10_NotFoundDistinct ==
    \A c \in Calls :
        (call[c].pc = "done" /\ call[c].thrown = ErrPatientNotFound) =>
            [status |-> call[c].status, error |-> call[c].error]
                # Catch(call[c].op, ErrStorage)
\* ------------------------------------------------------------------ backup claims
Coherent(data) ==
    /\ \A p \in 1..Len(data["procedures"]) :
          \E q \in 1..Len(data["patients"]) :
              data["patients"][q].id = data["procedures"][p].patient_id
    /\ \A m \in 1..Len(data["vessel_measurements"]) :
          \E p \in 1..Len(data["procedures"]) :
              data["procedures"][p].id = data["vessel_measurements"][m].procedure_id

\* C3: in every backup file, every procedure's patient and every measurement's procedure
\* is in the same file.
C3_SnapshotCoherent == \A n \in DOMAIN files : Coherent(files[n].content.data)

Quiet == \A j \in Jobs : job[j].pc \in {"idle", "done"}

\* C7: once the backup runs have completed, at most maxBackups manual files and at most
\* ten auto files are retained.
C7_RetentionBound ==
    Quiet =>
        /\ (\E j \in Jobs : job[j].kind = "manual" /\ job[j].pc = "done") =>
              Cardinality(FilesOfKind("manual")) <= maxBackups
        /\ (\E j \in Jobs : job[j].kind = "auto" /\ job[j].pc = "done") =>
              Cardinality(FilesOfKind("auto")) <= autoBackups
\* ------------------------------------------------------------------ browser store claims
IdsOf(rows) == {rows[i].id : i \in 1..Len(rows)}
AssessmentsOf(rows, id) == {i \in 1..Len(rows) : rows[i].patientId = id}
DeleteReturned(ok) == appLast.op = "deletePatient" /\ appLast.ok = ok

C6_DeleteMissing ==
    (appLast.op = "deletePatient" /\ appLast.id \notin IdsOf(appPrev.patients)) =>
        /\ appLast.ok = FALSE
        /\ appPatients = appPrev.patients
        /\ appAssessments = appPrev.assessments
        /\ localStorage = appPrev.localStorage

\* C6 witness: the second of two deletePatient calls with the same id
C6_Witness ==
    /\ DeleteReturned(FALSE)
    /\ appPrev.last = [op |-> "deletePatient", id |-> appLast.id, patientId |-> "",
                       ok |-> TRUE]
\* ------------------------------------------------------------------ process claims
\* C11: when the process has exited after a signal, a final manual backup was attempted
\* and the storage handle was closed exactly once.
C11_ShutdownClosesOnce ==
    server.state = "exited" =>
        /\ \E s \in Signals : shutdown[s].pc # "idle" /\ job[shutdown[s].job].kind = "manual"
        /\ server.db = "closed"
        /\ server.closes = 1

C13_ManualBackupSurfaces ==
    \A j \in Jobs :
        (/\ job[j].kind = "manual" /\ job[j].pc = "done"
         /\ job[j].failed \in {"write", "readdir", "stat", "unlink"})
            => job[j].result = "error"
\* ------------------------------------------------------------------ study claims
\* the createProcedure requests that name one study
CreateProcedureCalls(studyName) ==
    {c \in Calls : call[c].op = "createProcedure" /\ call[c].studyName = studyName}

\* C14: the store never holds two study rows of one name, and when the createProcedure
\* requests that name one study have all ended, none failed on the other's study row:
\* all were answered 201 and their procedures reference the one study row.
C14_StudyUpsert ==
    \A studyName \in StudyNames :
        LET cs == CreateProcedureCalls(studyName)
        IN  /\ Cardinality(StudyByName(studyName)) <= 1
            /\ (\A c \in cs : call[c].pc = "done") =>
                  \A c \in cs :
                      /\ call[c].thrown # ErrUniqueStudy
                      /\ call[c].status = 201
                      /\ Cardinality(StudyByName(studyName)) = 1
                      /\ \A p \in ProcedureRowsOf(c) :
                            procedures[p].study_id \in {studies[x].id : x \in StudyByName(studyName)}
\* ------------------------------------------------------------------ store invariants
LiveData == [name \in DOMAIN NoData |-> TableRows(name)]

\* C15: in every state of the record store every procedure row references a patient row
\* that exists and every measurement row a procedure row that exists.
C15_ReferentialIntegrity == Coherent(LiveData)

\* C15 witness: a createProcedure request that failed after its procedure row and a
\* measurement row were inserted
C15_Witness ==
    \E c \in Calls :
        /\ Finished(c, "createProcedure")
        /\ call[c].status = 500
        /\ ProcedureRowsOf(c) # {}
        /\ MeasurementRowsOf(c) # {}

\* C16: every measurement row holds a stenosis_percentage from 0 to 100.
C16_StenosisInRange ==
    \A m \in 1..Len(vessel_measurements) :
        /\ vessel_measurements[m].stenosis_percentage >= 0
        /\ vessel_measurements[m].stenosis_percentage <= 1000

\* C16 witness: a direct createProcedure call whose first measurement, 100, was stored and
\* whose second, 100.1, the store refused
C16_Witness ==
    \E c \in Calls :
        /\ Finished(c, "db.createProcedure")
        /\ call[c].thrown = ErrCheck
        /\ Len(call[c].vesselData) >= 2
        /\ call[c].vesselData[1].stenosisPercentage = 1000
        /\ call[c].vesselData[2].stenosisPercentage = 1001
        /\ \E m \in MeasurementRowsOf(c) : vessel_measurements[m].stenosis_percentage = 1000
\* ------------------------------------------------------------------ listPatients claims
\* the procedure rows that reference the patient row of an id, in a procedures table
ReferencesTo(rows, id) == {pr \in 1..Len(rows) : rows[pr].patient_id = id}

\* C17: the rows getPatients returns carry, as procedure_count, the number of procedure
\* rows that reference the patient when the SELECT runs; the INSERT of a createProcedure
\* request raises that number by one for its patient and for no other.
C17_LiveCounts ==
    [][\A c \in Calls :
          /\ (call[c].pc = "getPatients" /\ call'[c].pc = "done" /\ call'[c].thrown = "") =>
                \A k \in 1..Len(call'[c].data) :
                    call'[c].data[k].procedure_count =
                        Cardinality(ReferencesTo(procedures, call'[c].data[k].id))
          /\ (call[c].pc = "insertProcedure" /\ call'[c].pc # "insertProcedure"
              /\ call'[c].pc # "done") =>
                \A p \in 1..Len(patients) :
                    Cardinality(ReferencesTo(procedures', patients[p].id)) =
                        Cardinality(ReferencesTo(procedures, patients[p].id))
                            + (IF patients[p].id = call[c].patient THEN 1 ELSE 0)
      ]_vars

\* C17 witness: a list that shows a patient with a count of one
C17_Witness ==
    \E c \in Calls :
        /\ Finished(c, "getPatients") /\ call[c].status = 200
        /\ \E k \in 1..Len(call[c].data) : call[c].data[k].procedure_count = 1

\* C18: a getPatients that runs after a createPatient was answered 201 returns exactly one
\* row with that patient_id, and its procedure_count is 0 as long as no createProcedure
\* request has named the patient.
C18_CreateThenList ==
    [][\A d \in Calls :
          (call[d].pc = "getPatients" /\ call'[d].pc = "done" /\ call'[d].thrown = "") =>
              \A c \in Calls :
                  (Finished(c, "createPatient") /\ call[c].status = 201) =>
                      LET rows == {k \in 1..Len(call'[d].data) :
                                      call'[d].data[k].patient_id = call[c].patientId}
                      IN  /\ Cardinality(rows) = 1
                          /\ (\A e \in Calls : ~(/\ call[e].op = "createProcedure"
                                                 /\ call[e].patientId = call[c].patientId))
                                => \A k \in rows : call'[d].data[k].procedure_count = 0
      ]_vars

\* C18 witness: a patient was created and the list that followed shows it with count 0
C18_Witness ==
    \E c, d \in Calls :
        /\ c < d
        /\ Finished(c, "createPatient") /\ call[c].status = 201
        /\ Finished(d, "getPatients") /\ call[d].status = 200
        /\ \E k \in 1..Len(call[d].data) :
              /\ call[d].data[k].patient_id = call[c].patientId
              /\ call[d].data[k].procedure_count = 0
\* ------------------------------------------------------------------ user claims
\* C19: no two user rows hold emails that differ only in letter case, and a createUser
\* whose email, letter case ignored, is already stored ends in Conflict.
C19_EmailConflictIgnoresCase ==
    /\ \A a, b \in 1..Len(users) :
          a # b => toLowerCase(users[a].email) # toLowerCase(users[b].email)
    /\ \A c \in Calls :
          (/\ call[c].op \in {"register", "db.createUser"} /\ call[c].pc = "done"
           /\ call[c].thrown \notin {"", ErrStorage}) => call[c].thrown = ErrUniqueUser

\* ------------------------------------------------------------------ startup claims
Provisioned(before) ==
    /\ \A i \in 1..Len(defaultUsers) :
          \E u \in 1..Len(before[1]) : before[1][u].email = defaultUsers[i]
    /\ \E x \in 1..Len(before[3]) : before[3][x].name = "VIKING"

\* C20: while initialize runs again on a provisioned store, and when it has returned,
\* every table is as the start found it; and it returns unless a storage call rejects.
C20_InitializeIdempotent ==
    (/\ boot.starts >= 2
     /\ Provisioned(boot.before)
     /\ \A c \in Calls : call[c].pc = "idle") =>
        /\ tables = boot.before
        /\ boot.pc = "done" => server.state = "running"

\* C20 witness: a second initialize has returned on a store that holds, besides the
\* defaults, a registered user and a patient
C20_Witness ==
    /\ boot.starts >= 2 /\ boot.pc = "done" /\ server.state = "running"
    /\ \A c \in Calls : call[c].pc = "idle"
    /\ Provisioned(boot.before)
    /\ Len(users) > Len(defaultUsers)
    /\ Len(patients) >= 1

\* ------------------------------------------------------------------ export and backup claims
RECURSIVE Sum(_)
Sum(numbers) == IF numbers = <<>> THEN 0 ELSE Head(numbers) + Sum(Tail(numbers))

\* the procedures and the measurements of a tree of getFullExport
ProceduresIn(tree) == Sum([k \in 1..Len(tree) |-> Len(tree[k].procedures)])
MeasurementsIn(tree) ==
    Sum([k \in 1..Len(tree) |->
            Sum([n \in 1..Len(tree[k].procedures) |->
                    Len(tree[k].procedures[n].vessel_data)])])

\* the measurement rows of a procedure, in the order of their insertion
OwnMeasurements(procedureId) ==
    LET own(vm) == vm.procedure_id = procedureId
    IN  SelectSeq(vessel_measurements, own)

\* every table is as the call found it when it began
NoWriteSince(before) == before = tables

\* C21: a manual backup, retrieved by the name of the file it wrote while nothing is
\* written to the store and no request is under way, is retrieved successfully, and the
\* payload holds as many patients, procedures and measurements as an exportAll of the
\* same store state.
C21_BackupRoundTrip ==
    \A b, r \in Jobs, c \in Calls :
        (/\ job[b].kind = "manual" /\ job[b].pc = "done" /\ job[b].result = "ok"
         /\ job[r].kind = "restore" /\ job[r].pc = "done"
         /\ job[r].name = FileName("manual", job[b].timestamp)
         /\ \A name \in DOMAIN NoData : job[b].data[name] = TableRows(name)
         /\ call[c].op = "export" /\ call[c].pc = "done" /\ call[c].status = 200
         /\ NoWriteSince(call[c].before)
         /\ \A d \in Calls : call[d].pc \in {"idle", "done"}) =>
            /\ job[r].result = "ok"
            /\ Len(job[r].backup.data["patients"]) = Len(call[c].data)
            /\ Len(job[r].backup.data["procedures"]) = ProceduresIn(call[c].data)
            /\ Len(job[r].backup.data["vessel_measurements"]) = MeasurementsIn(call[c].data)

\* C22: getProcedures for an existing patient returns that patient's procedures and no
\* other, each once, no procedure before one of a later procedure_date, and each with
\* its own measurements in the order of their insertion.
C22_GetProceduresOrdered ==
    [][\A c \in Calls :
          (call[c].pc = "gpSelect" /\ call'[c].pc = "done" /\ call'[c].status = 200) =>
              LET rows == call'[c].data
                  mine == ProceduresOf(call[c].patient)
              IN  /\ Len(rows) = Cardinality(mine)
                  /\ {rows[k].id : k \in 1..Len(rows)} = {procedures[p].id : p \in mine}
                  /\ \A a, b \in 1..Len(rows) :
                        a < b => rows[a].procedure_date >= rows[b].procedure_date
                  /\ \A k \in 1..Len(rows) :
                        LET own == OwnMeasurements(rows[k].id)
                        IN  rows[k].vessel_data =
                                [m \in 1..Len(own) |-> VesselObject(own[m])]
      ]_vars

\* C23: no step of an export changes a table or writes an audit entry, and when nothing
\* was written while it ran, it returns every patient of the store, each with a list of
\* procedures that getProcedures can return for that patient on that state.
C23_ExportAgrees ==
    [][\A c \in Calls :
          (call[c].op = "export" /\ call'[c] # call[c]) =>
              /\ tables' = tables
              /\ (/\ call'[c].pc = "done" /\ call'[c].status = 200
                  /\ NoWriteSince(call[c].before)) =>
                    LET tree == call'[c].data
                    IN  /\ {tree[k].id : k \in 1..Len(tree)}
                               = {patients[p].id : p \in 1..Len(patients)}
                        /\ \A k \in 1..Len(tree) :
                              \E order \in DateDescending(ProceduresOf(tree[k].id)) :
                                  tree[k].procedures = ProcedureRows(order)
      ]_vars

\* the file a backup run names
FileOf(j) == FileName(job[j].kind, job[j].timestamp)

\* a backup run that has written its file
Written(j) == job[j].kind \in {"manual", "auto"} /\ job[j].pc \in {"readdir", "done"}
                 /\ job[j].failed \notin {"mkdir", "read", "write"}

\* C24: the directory listing getBackupList takes holds every file there is, so the
\* file of every backup that has been written; the list it returns has one entry for
\* each file of that listing, a backup's entry has the type of the call that wrote it
\* (the envelope of createAutoBackup alone says 'auto'), every entry has the mtime of its
\* file, and no entry comes before a newer one.
C24_ListBackups ==
    [][\A j \in Jobs :
          /\ (job[j].pc = "listReaddir" /\ job'[j].pc = "listStat") =>
                /\ job'[j].listing = DOMAIN files
                /\ \A b \in Jobs : Written(b) => FileOf(b) \in job'[j].listing
          /\ (job[j].pc = "listStat" /\ job'[j].pc = "done" /\ job'[j].result = "ok") =>
                LET entries == job'[j].entries
                IN  /\ Len(entries) = Cardinality(job[j].listing)
                    /\ {entries[k].name : k \in 1..Len(entries)} = job[j].listing
                    /\ \A k \in 1..Len(entries) :
                          /\ entries[k].created = files[entries[k].name].mtime
                          /\ entries[k].name.kind \in {"manual", "auto"} =>
                                entries[k].type =
                                    (IF files[entries[k].name].content.metadata.type = "auto"
                                     THEN "auto" ELSE "manual")
                    /\ \A a, b \in 1..Len(entries) :
                          a < b => entries[a].created >= entries[b].created
      ]_vars

\* C24 witness: a list that holds the file a backup of this run has written, a manual
\* and an auto entry, and entries of different times
C24_Witness ==
    \E j \in Jobs :
        /\ job[j].kind = "list" /\ job[j].pc = "done" /\ job[j].result = "ok"
        /\ \E b \in Jobs : Written(b) /\ \E k \in 1..Len(job[j].entries) :
                                            job[j].entries[k].name = FileOf(b)
        /\ \E a, b \in 1..Len(job[j].entries) :
              /\ job[j].entries[a].type = "manual" /\ job[j].entries[b].type = "auto"
              /\ job[j].entries[a].created # job[j].entries[b].created

\* C25: restoreBackup of a file that lacks its data or its metadata throws 'Invalid
\* backup file format' and returns nothing; of a file that has both it returns the parsed
\* content; and no step of it changes a table or the backup directory.
C25_RetrieveValidates ==
    [][\A j \in Jobs :
          (job'[j].kind = "restore" /\ job'[j] # job[j]) =>
              /\ tables' = tables
              /\ files' = files
              /\ (job'[j].pc = "done" /\ job[j].name \in DOMAIN files) =>
                    LET content == files[job[j].name].content
                    IN  IF {"metadata", "data"} \subseteq content.sections
                        THEN job'[j].result = "ok" /\ job'[j].backup = content
                        ELSE /\ job'[j].result = "error"
                             /\ job'[j].failed = "Invalid backup file format"
                             /\ job'[j].backup = NoBackup
      ]_vars

\* C25 witness: one retrieval has failed on a file without metadata or without data and
\* another has returned a backup
C25_Witness ==
    \E j, k \in Jobs :
        /\ job[j].kind = "restore" /\ job[j].pc = "done"
        /\ job[j].failed = "Invalid backup file format"
        /\ job[k].kind = "restore" /\ job[k].pc = "done" /\ job[k].result = "ok"
        /\ job[k].backup.sections = {"metadata", "data"}

\* C26: in a directory that began empty and is under the caps, there are as many files
\* of each kind as backup calls of that kind have written: no call has replaced the file
\* of another.
C26_BackupsDistinct ==
    \A kind \in {"manual", "auto"} :
        Cardinality(FilesOfKind(kind)) >=
            Cardinality({j \in Jobs : Written(j) /\ job[j].kind = kind})

\* C27: whenever a file leaves the backup directory, the step is an unlink of a backup
\* run of that file's kind.
C27_PruneOwnKind ==
    [][\A n \in DOMAIN files :
          n \notin DOMAIN files' =>
              \E j \in Jobs : /\ job[j].pc = "unlink" /\ job'[j] # job[j]
                              /\ job[j].kind = n.kind
      ]_vars

\* C27 witness: a manual and an auto backup have both pruned a directory that held files
\* of both kinds, and files of both kinds remain
C27_Witness ==
    /\ \E j, k \in Jobs : /\ job[j].kind = "manual" /\ job[j].pc = "done"
                          /\ job[k].kind = "auto" /\ job[k].pc = "done"
    /\ OldFiles("manual") \ DOMAIN files # {}
    /\ OldFiles("auto") \ DOMAIN files # {}
    /\ FilesOfKind("manual") # {} /\ FilesOfKind("auto") # {}

\* ------------------------------------------------------------------ browser store claims, continued
\* C28: no two stored patients of AppState have the same patientId.
C28_AppPatientIdUnique ==
    \A i, k \in 1..Len(appPatients) :
        i # k => appPatients[i].patientId # appPatients[k].patientId

\* C29: every stored assessment of AppState has the id of a stored patient.
C29_AppAssessmentsReferToPatients ==
    \A a \in 1..Len(appAssessments) : appAssessments[a].patientId \in IdsOf(appPatients)

\* C30: no two users stored by Auth.register have emails that are equal when letter
\* case is ignored, and a register call with an email that differs from a stored one
\* only in letter case returns false and leaves the users as they were.
C30_RegisterIgnoresCase ==
    /\ \A u, v \in 1..Len(localStorage.users) :
          u # v => toLowerCase(localStorage.users[u].email)
                      # toLowerCase(localStorage.users[v].email)
    /\ (/\ appLast.op = "register"
        /\ \E u \in 1..Len(appPrev.localStorage.users) :
              toLowerCase(appPrev.localStorage.users[u].email)
                  = toLowerCase(appLast.patientId)) =>
            /\ appLast.ok = FALSE
            /\ localStorage.users = appPrev.localStorage.users
====
